---- MODULE Spec2Model ----
(***************************************************************************)
(* Model of the job-portal RAG server: the POST /query handler of          *)
(* server/routes/rag.js, getEmbedding of server/embeddingService.js and    *)
(* generateAnswer of server/llmService.js.                                 *)
(*                                                                         *)
(* JavaScript values are tagged records.  A string is a sequence of        *)
(* tokens, each token standing for one or more characters; a number is     *)
(* kept as twice its value (n2) so that halves such as 1.5 are             *)
(* representable; an object is the sequence of its own enumerable          *)
(* properties in for-in order.                                             *)
(***************************************************************************)
EXTENDS Integers, Sequences, FiniteSets, TLC

\* ---------------------------------------------------------------- bounds
MaxFields == 2      \* most properties of a filters object
MaxDocs   == 2      \* most documents a search returns
MaxSends  == 3      \* most questions a user sends in one chat session

\* ------------------------------------------------------------- JS values
Undefined     == [t |-> "undefined"]
Null          == [t |-> "null"]
Str(s)        == [t |-> "string", s |-> s]
Num(n2)       == [t |-> "number", n2 |-> n2]
Obj(e)        == [t |-> "object", e |-> e]
Arr(a)        == [t |-> "array", a |-> a]
Bool(b)       == [t |-> "boolean", b |-> b]
typeof(v)     == CASE v.t = "undefined" -> "undefined"
                   [] v.t = "string"    -> "string"
                   [] v.t = "number"    -> "number"
                   [] v.t = "boolean"   -> "boolean"
                   [] OTHER             -> "object"
Truthy(v)     == CASE v.t = "undefined" -> FALSE
                   [] v.t = "null"      -> FALSE
                   [] v.t = "string"    -> v.s # <<>>
                   [] v.t = "number"    -> v.n2 # 0
                   [] v.t = "boolean"   -> v.b
                   [] OTHER             -> TRUE
IsInteger(v)  == v.t = "number" /\ v.n2 % 2 = 0

Range(f)      == {f[i] : i \in DOMAIN f}
IsSpace(c)    == c = " "
RECURSIVE TrimStart(_)
TrimStart(s)  == IF s # <<>> /\ IsSpace(Head(s)) THEN TrimStart(Tail(s)) ELSE s
RECURSIVE TrimEnd(_)
TrimEnd(s)    == IF s # <<>> /\ IsSpace(s[Len(s)])
                 THEN TrimEnd(SubSeq(s, 1, Len(s) - 1)) ELSE s
Trim(s)       == TrimEnd(TrimStart(s))
StartsWith(s, p) == Len(p) <= Len(s) /\ SubSeq(s, 1, Len(p)) = p
Slice(s, n)   == SubSeq(s, n + 1, Len(s))
NumToString(n2) == IF n2 % 2 = 0 THEN ToString(n2 \div 2)
                   ELSE ToString(n2 \div 2) \o ".5"
GetProp(o, k) == IF o.t = "object" /\ \E i \in DOMAIN o.e : o.e[i][1] = k
                 THEN o.e[CHOOSE i \in DOMAIN o.e : o.e[i][1] = k][2]
                 ELSE Undefined

\* ------------------------------------------------------ program constants
FallbackAnswer  == <<"I'm sorry, I don't see that information in the portal.">>
WentWrongAnswer == <<"I'm sorry, something went wrong during generation.">>
ErrQuery        == <<"Query must be a non-empty string.">>
ErrTopK         == <<"topK must be a positive integer.">>
ErrObjectId     == <<"Invalid ObjectId for companyId">>
ErrLLM          == <<"Failed to generate answer from LLM.">>
ErrPipeline     == <<"An unexpected RAG pipeline failure occurred.">>
DefaultTopK     == Num(2)
MinCandidates   == 150
HexDigits       == {"0", "1", "2", "3", "4", "5", "6", "7", "8", "9",
                    "a", "b", "c", "d", "e", "f"}

\* ------------------------------------------------- mongodb ObjectId model
ObjectIdIsValid(v) == /\ v.t = "string"
                      /\ Len(v.s) = 24
                      /\ \A i \in DOMAIN v.s : v.s[i] \in HexDigits
NewObjectId(v)     == [t |-> "ObjectId", hex |-> v.s]

\* ------------------------------------------------ JSON.stringify (ranges)
RECURSIVE StringifyProps(_)
StringifyProps(e) ==
    IF e = <<>> THEN <<>>
    ELSE <<"\"" \o e[1][1] \o "\":", NumToString(e[1][2].n2)>>
         \o (IF Len(e) > 1 THEN <<",">> ELSE <<>>)
         \o StringifyProps(Tail(e))
JSONStringify(v) == IF v.t = "array" THEN <<"[">> \o <<"]">>
                    ELSE <<"{">> \o StringifyProps(v.e) \o <<"}">>
\* ------------------------------------------------ convertMqlRangeCondition
\* Copies the recognised bounds in the order $lte, $lt, $gte, $gt; throws
\* when none is present.
BoundKeys == <<"$lte", "$lt", "$gte", "$gt">>
RECURSIVE CopyBounds(_, _)
CopyBounds(condition, i) ==
    IF i > Len(BoundKeys) THEN <<>>
    ELSE (IF GetProp(condition, BoundKeys[i]) # Undefined
          THEN <<<<BoundKeys[i], GetProp(condition, BoundKeys[i])>>>>
          ELSE <<>>)
         \o CopyBounds(condition, i + 1)
\* Mutant: every key of the condition is copied, recognised or not.
convertMqlRangeConditionCopyAll(condition) ==
    LET mql == IF condition.t = "object" THEN condition.e ELSE <<>> IN
    IF Len(mql) = 0
    THEN [threw |-> TRUE, mql |-> Obj(<<>>),
          message |-> <<"Invalid range condition: ">> \o JSONStringify(condition)]
    ELSE [threw |-> FALSE, mql |-> Obj(mql), message |-> <<>>]
convertMqlRangeCondition(condition) ==
    LET mql == CopyBounds(condition, 1) IN
    IF Len(mql) = 0
    THEN [threw |-> TRUE, mql |-> Obj(<<>>),
          message |-> <<"Invalid range condition: ">> \o JSONStringify(condition)]
    ELSE [threw |-> FALSE, mql |-> Obj(mql), message |-> <<>>]

\* --------------------------------------------- filter translation (step 3)
\* Own enumerable properties in for-in order; Object.keys(null) throws.
\* Non-integer keys come in insertion order, which is the order of e.
OwnProps(v) ==
    CASE v.t = "object" -> v.e
      [] v.t = "string" -> [i \in 1..Len(v.s) |-> <<ToString(i - 1), Str(<<v.s[i]>>)>>]
      [] v.t = "array"  -> [i \in 1..Len(v.a) |-> <<ToString(i - 1), v.a[i]>>]
      [] OTHER          -> <<>>
MetadataKey(field) == "metadata." \o field
\* One iteration of the for-in loop body: the clause pushed or the 400 error.
TranslateField(field, cond) ==
    IF field = "companyId"
    THEN IF typeof(cond) = "string" /\ ObjectIdIsValid(cond)
         THEN [err |-> FALSE, clause |-> <<MetadataKey("companyId"), NewObjectId(cond)>>,
               error |-> <<>>]
         ELSE [err |-> TRUE, clause |-> <<>>, error |-> ErrObjectId]
    ELSE IF typeof(cond) = "object" /\ cond # Null
         THEN LET r == convertMqlRangeCondition(cond) IN
              IF r.threw
              THEN [err |-> TRUE, clause |-> <<>>,
                    error |-> <<"Invalid filter for '", field, "': ">> \o r.message]
              ELSE [err |-> FALSE, clause |-> <<MetadataKey(field), r.mql>>,
                    error |-> <<>>]
         ELSE [err |-> FALSE, clause |-> <<MetadataKey(field), cond>>, error |-> <<>>]
\* The loop: stops at the first field whose translation fails.
RECURSIVE TranslateLoop(_, _, _)
TranslateLoop(props, i, andClauses) ==
    IF i > Len(props)
    THEN [kind |-> "ok", andClauses |-> andClauses, visited |-> Len(props),
          error |-> <<>>]
    ELSE LET r == TranslateField(props[i][1], props[i][2]) IN
         IF r.err
         THEN [kind |-> "badRequest", andClauses |-> andClauses, visited |-> i,
               error |-> r.error]
         ELSE TranslateLoop(props, i + 1, Append(andClauses, r.clause))
\* kind: "none" no filter attached, "ok" filter attached, "badRequest" 400,
\* "throw" TypeError from Object.keys.
TranslateFilters(filters) ==
    IF filters.t \in {"null", "undefined"}
    THEN [kind |-> "throw", andClauses |-> <<>>, visited |-> 0, error |-> <<>>]
    ELSE IF Len(OwnProps(filters)) > 0
         THEN TranslateLoop(OwnProps(filters), 1, <<>>)
         ELSE [kind |-> "none", andClauses |-> <<>>, visited |-> 0, error |-> <<>>]
\* ------------------------------------------------------------ llmService
Instruction == <<"You are an AI assistant for a Job Portal. ",
                 "Use ONLY the provided context to answer the user's question. ",
                 "If not available, list all the available jobs.\".\n\n">>
RECURSIVE Numbered(_, _)
Numbered(contexts, idx) ==
    IF idx > Len(contexts) THEN <<>>
    ELSE <<"(" \o ToString(idx) \o ") ">> \o contexts[idx].s
         \o (IF idx < Len(contexts) THEN <<"\n">> ELSE <<>>)
         \o Numbered(contexts, idx + 1)
formatPrompt(contexts, question) ==
    Instruction \o <<"Context:\n">> \o Numbered(contexts, 1) \o <<"\n\n">>
    \o <<"Question: ">> \o question.s \o <<"\n\nAnswer:">>
\* generateAnswer step 1: TRUE when the argument validation throws.
GenerateAnswerRejects(contexts, question) ==
    \/ \E i \in DOMAIN contexts : typeof(contexts[i]) # "string"
    \/ ~Truthy(question)
    \/ typeof(question) # "string"
\* generateAnswer steps 7-8 on a completed HTTP call: the text returned, or
\* threw = TRUE for a TypeError raised inside the try block.
\* Mutant: an unexpected response format answers with the fallback string.
ExtractGeneratedFallbackOnly(data, prompt) ==
    LET first     == IF data.t = "array" /\ Len(data.a) > 0 THEN data.a[1] ELSE Undefined
        generated ==
            IF data.t = "array" /\ Len(data.a) > 0
            THEN (IF Truthy(GetProp(first, "generated_text"))
                  THEN GetProp(first, "generated_text") ELSE Str(<<>>))
            ELSE GetProp(data, "generated_text")
    IN  IF data.t = "array" /\ Len(data.a) > 0 /\ first.t \in {"null", "undefined"}
        THEN [threw |-> TRUE, text |-> <<>>]
        ELSE IF data.t \in {"null", "undefined"}
        THEN [threw |-> TRUE, text |-> <<>>]
        ELSE IF ~(data.t = "array" /\ Len(data.a) > 0) /\ ~Truthy(generated)
        THEN [threw |-> FALSE, text |-> FallbackAnswer]
        ELSE IF generated.t # "string"
        THEN [threw |-> TRUE, text |-> <<>>]
        ELSE IF StartsWith(generated.s, prompt)
        THEN [threw |-> FALSE, text |-> Trim(Slice(generated.s, Len(prompt)))]
        ELSE [threw |-> FALSE, text |-> Trim(generated.s)]
ExtractGenerated(data, prompt) ==
    LET first     == IF data.t = "array" /\ Len(data.a) > 0 THEN data.a[1] ELSE Undefined
        generated ==
            IF data.t = "array" /\ Len(data.a) > 0
            THEN (IF Truthy(GetProp(first, "generated_text"))
                  THEN GetProp(first, "generated_text") ELSE Str(<<>>))
            ELSE GetProp(data, "generated_text")
    IN  IF data.t = "array" /\ Len(data.a) > 0 /\ first.t \in {"null", "undefined"}
        THEN [threw |-> TRUE, text |-> <<>>]
        ELSE IF data.t \in {"null", "undefined"}
        THEN [threw |-> TRUE, text |-> <<>>]
        ELSE IF ~(data.t = "array" /\ Len(data.a) > 0) /\ ~Truthy(generated)
        THEN [threw |-> FALSE, text |-> WentWrongAnswer]
        ELSE IF generated.t # "string"
        THEN [threw |-> TRUE, text |-> <<>>]
        ELSE IF StartsWith(generated.s, prompt)
        THEN [threw |-> FALSE, text |-> Trim(Slice(generated.s, Len(prompt)))]
        ELSE [threw |-> FALSE, text |-> Trim(generated.s)]
\* generateAnswer from the settlement of axios.post on: the catch block turns
\* every error, rejected call or TypeError alike, into the fallback string.
\* Mutant: a failed HTTP call answers with the other apology.
GenerateAnswerSettleOtherApology(outcome, prompt) ==
    IF outcome.kind = "error" THEN WentWrongAnswer
    ELSE LET r == ExtractGenerated(outcome.data, prompt) IN
         IF r.threw THEN FallbackAnswer ELSE r.text
GenerateAnswerSettle(outcome, prompt) ==
    IF outcome.kind = "error" THEN FallbackAnswer
    ELSE LET r == ExtractGenerated(outcome.data, prompt) IN
         IF r.threw THEN FallbackAnswer ELSE r.text

\* ------------------------------------------------------ embeddingService
\* getEmbedding's own argument check (throws when TRUE).
GetEmbeddingRejects(text) ==
    typeof(text) # "string" \/ Len(Trim(text.s)) = 0
\* raw = result[0]; Array.isArray(raw) ? raw : Array.from(raw)
GetEmbeddingResult(raw) ==
    IF raw.t = "array" THEN [threw |-> FALSE, value |-> raw]
    ELSE IF raw.t = "typed" THEN [threw |-> FALSE, value |-> Arr(raw.a)]
    ELSE [threw |-> TRUE, value |-> Undefined]
\* ---------------------------------------------------------------- state
VARIABLES
    alive,          \* the Node process is running
    embedder,       \* embeddingService.js: "null" until initEmbedder resolves
    embedderInit,   \* "loading" | "done" | "failed"
    knowledgeCol,   \* rag.js: "null" until the MongoDB connection is made
    HF_API_TOKEN,   \* llmService.js: TRUE when the credential is set
    h,              \* the frame of the POST /query handler being served
    prev,           \* an earlier request of this process and its response
    seed,           \* the run of scripts/create_collections_and_dummy_data.js
    chat            \* frontend_chat: the React state of App and MessageInput
vars == <<alive, embedder, embedderInit, knowledgeCol, HF_API_TOKEN, h, prev, seed, chat>>

NoStage == [attached |-> FALSE, filter |-> <<>>, queryVector |-> Undefined,
            numCandidates |-> 0, limit |-> Undefined]
NoTranslation == [kind |-> "pending", andClauses |-> <<>>, visited |-> 0, error |-> <<>>]
\* How an awaited external call settled; "none" while it has not.
NoOutcome == [kind |-> "none"]
IdleFrame ==
    [pc |-> "idle", body |-> Undefined, query |-> Undefined, filters |-> Undefined,
     topK |-> Undefined, log |-> <<>>, responses |-> <<>>, escaped |-> FALSE,
     embedderAtCall |-> "null", embedded |-> "none", qEmbedding |-> Undefined,
     translation |-> NoTranslation, stage |-> NoStage, results |-> <<>>,
     prompt |-> <<>>, llm |-> "none", threwAt |-> "none",
     outcomes |-> [embedding |-> NoOutcome, search |-> NoOutcome, llm |-> NoOutcome]]

\* Events of the log: <<"call" | "return" | "throw", callee>>.
Logged(f, ev)     == [f EXCEPT !.log = Append(@, ev)]
Count(log, ev)    == Cardinality({i \in DOMAIN log : log[i] = ev})

\* --------------------------------------------------------- response bodies
\* Mutant: a failure body that also carries an empty sources list.
FailBodyWithSources(error) ==
    [keys |-> {"success", "error", "sources"}, success |-> FALSE, error |-> error,
     answer |-> <<>>, sources |-> <<>>]
FailBody(error) ==
    [keys |-> {"success", "error"}, success |-> FALSE, error |-> error,
     answer |-> <<>>, sources |-> <<>>]
SuccessBody(answer, sources) ==
    [keys |-> {"success", "answer", "sources"}, success |-> TRUE, error |-> <<>>,
     answer |-> answer, sources |-> sources]
\* res.status(status).json(body); the handler returns.
Respond(f, status, body) ==
    [f EXCEPT !.responses = Append(@, [status |-> status, body |-> body]),
              !.pc = "done"]
\* The outer try/catch: r is [threw, f], the result of running the handler
\* body up to its next await or return.
Ok(f)     == [threw |-> FALSE, f |-> f]
\* A throw at the named place, pending in frame f.
Thrown(f, at) == [threw |-> TRUE, f |-> [f EXCEPT !.threwAt = at]]
\* Mutant: no outer catch, the throw stays pending.
CatchPipelineErrorAbsent(r) == r
CatchPipelineError(r) ==
    IF r.threw THEN Ok(Respond(r.f, 500, FailBody(ErrPipeline))) ELSE r
\* What reaches Express: a throw that is still pending escapes the handler.
Settle(r) ==
    IF r.threw THEN [r.f EXCEPT !.escaped = TRUE, !.pc = "done"] ELSE r.f

\* ------------------------------------------------- handler, lines 54 - 63
QueryInvalid(query) ==
    ~Truthy(query) \/ typeof(query) # "string" \/ ~Truthy(Str(Trim(query.s)))
TopKInvalid(topK) ==
    typeof(topK) # "number" \/ topK.n2 <= 0
Default(v, d) == IF v = Undefined THEN d ELSE v
\* From the entry of the handler to the await of getEmbedding.
StartBody(f, body) ==
    IF body.t \in {"undefined", "null"} THEN Thrown([f EXCEPT !.body = body], "req.body")
    ELSE
    LET query   == GetProp(body, "query")
        filters == Default(GetProp(body, "filters"), Obj(<<>>))
        topK    == Default(GetProp(body, "topK"), DefaultTopK)
        f1      == [f EXCEPT !.body = body, !.query = query, !.filters = filters,
                             !.topK = topK]
    IN  IF QueryInvalid(query) THEN Ok(Respond(f1, 400, FailBody(ErrQuery)))
        ELSE IF TopKInvalid(topK) THEN Ok(Respond(f1, 400, FailBody(ErrTopK)))
        ELSE Ok([Logged(f1, <<"call", "getEmbedding">>) EXCEPT
                    !.pc = "awaitEmbedding",
                    !.embedderAtCall = IF GetEmbeddingRejects(query)
                                       THEN "unused" ELSE embedder])
\* ------------------------------------------------ handler, lines 63 - 136
\* Array-like, non-array objects are copied with Array.from.
NormalizeEmbedding(v) == IF v.t = "typed" THEN Arr(v.a) ELSE v
\* Mutant: any array passes, whatever its elements.
IsNumericArrayAnyElement(v) == v.t = "array"
IsNumericArray(v) ==
    v.t = "array" /\ \A i \in DOMAIN v.a : typeof(v.a[i]) = "number"
Max(a, b) == IF a >= b THEN a ELSE b
\* numCandidates: Math.max(150, topK * 10), topK being n2 / 2.
VectorSearchStage(qEmbedding, topK) ==
    [attached |-> FALSE, filter |-> <<>>, queryVector |-> qEmbedding,
     numCandidates |-> Max(MinCandidates, topK.n2 * 5), limit |-> topK]
\* From the settlement of getEmbedding to the await of aggregate().toArray().
AfterEmbedding(f, outcome) ==
    LET got == IF outcome.kind = "reject" \/ f.embedderAtCall # "ready"
               THEN [threw |-> TRUE, value |-> Undefined]
               ELSE GetEmbeddingResult(outcome.raw)
    IN
    IF got.threw
    THEN Thrown([Logged(f, <<"throw", "getEmbedding">>) EXCEPT
                    !.embedded = "threw",
                    !.outcomes.embedding = IF f.embedderAtCall = "ready"
                                           THEN outcome ELSE NoOutcome],
                "getEmbedding")
    ELSE
    LET f1 == [Logged(f, <<"return", "getEmbedding">>) EXCEPT
                  !.embedded = "returned", !.outcomes.embedding = outcome,
                  !.qEmbedding = NormalizeEmbedding(got.value)]
    IN
    IF ~IsNumericArray(f1.qEmbedding) THEN Thrown(f1, "qEmbedding")
    ELSE
    LET tr    == TranslateFilters(f1.filters)
        stage == VectorSearchStage(f1.qEmbedding, f1.topK)
        f2    == [f1 EXCEPT !.translation = tr,
                            !.stage = IF tr.kind = "ok"
                                      THEN [stage EXCEPT !.attached = TRUE,
                                                         !.filter = tr.andClauses]
                                      ELSE stage]
    IN
    IF tr.kind = "throw" THEN Thrown(f2, "Object.keys")
    ELSE IF tr.kind = "badRequest" THEN Ok(Respond(f2, 400, FailBody(tr.error)))
    ELSE IF knowledgeCol = "null" THEN Thrown(f2, "knowledgeCol")
    ELSE Ok([Logged(f2, <<"call", "aggregate">>) EXCEPT !.pc = "awaitSearch"])

\* ----------------------------------------------- handler, lines 136 - 154
\* Mutant: the texts are taken last document first.
SnippetsReversed(results) ==
    [i \in DOMAIN results |-> results[Len(results) + 1 - i].text]
Snippets(results) == [i \in DOMAIN results |-> results[i].text]
\* The inner try/catch around generateAnswer: a throw of the wrapper becomes
\* the 500 "Failed to generate answer from LLM." response.
\* Mutant: a throw of the wrapper is absorbed into the fallback answer.
CatchLlmErrorAbsorbs(r) ==
    IF r.threw THEN Ok(Respond(r.f, 200, SuccessBody(FallbackAnswer, r.f.results)))
    ELSE r
CatchLlmError(r) ==
    IF r.threw THEN Ok(Respond(r.f, 500, FailBody(ErrLLM))) ELSE r
\* generateAnswer up to its axios.post, called with the snippets.
\* Mutant: the HTTP call is made whether or not the token is set.
CallGenerateAnswerIgnoresToken(f, snippets) ==
    LET f1 == Logged(f, <<"call", "generateAnswer">>) IN
    IF GenerateAnswerRejects(snippets, f.query)
    THEN Thrown([Logged(f1, <<"throw", "generateAnswer">>) EXCEPT !.llm = "threw"],
                "generateAnswer")
    ELSE
    LET f2 == [f1 EXCEPT !.prompt = formatPrompt(snippets, f.query)] IN
    Ok([Logged(f2, <<"call", "axios.post">>) EXCEPT !.pc = "awaitLLM"])
CallGenerateAnswer(f, snippets) ==
    LET f1 == Logged(f, <<"call", "generateAnswer">>) IN
    IF GenerateAnswerRejects(snippets, f.query)
    THEN Thrown([Logged(f1, <<"throw", "generateAnswer">>) EXCEPT !.llm = "threw"],
                "generateAnswer")
    ELSE
    LET f2 == [f1 EXCEPT !.prompt = formatPrompt(snippets, f.query)] IN
    IF ~HF_API_TOKEN
    THEN Ok(Respond([Logged(f2, <<"return", "generateAnswer">>) EXCEPT
                        !.llm = "noToken"],
                    200, SuccessBody(FallbackAnswer, f2.results)))
    ELSE Ok([Logged(f2, <<"call", "axios.post">>) EXCEPT !.pc = "awaitLLM"])
\* Mutant: generateAnswer is called whatever the number of snippets.
AfterSearchAlwaysGenerates(f, outcome) ==
    IF outcome.kind = "reject"
    THEN Thrown([Logged(f, <<"throw", "aggregate">>) EXCEPT !.outcomes.search = outcome],
                "aggregate")
    ELSE
    LET f1 == [Logged(f, <<"return", "aggregate">>) EXCEPT
                  !.results = outcome.docs, !.outcomes.search = outcome] IN
    CatchLlmError(CallGenerateAnswer(f1, Snippets(f1.results)))
\* From the settlement of aggregate().toArray() to the response or to the
\* await of generateAnswer.
AfterSearch(f, outcome) ==
    IF outcome.kind = "reject"
    THEN Thrown([Logged(f, <<"throw", "aggregate">>) EXCEPT !.outcomes.search = outcome],
                "aggregate")
    ELSE
    LET f1 == [Logged(f, <<"return", "aggregate">>) EXCEPT
                  !.results = outcome.docs, !.outcomes.search = outcome] IN
    IF Len(Snippets(f1.results)) > 0
    THEN CatchLlmError(CallGenerateAnswer(f1, Snippets(f1.results)))
    ELSE Ok(Respond(f1, 200, SuccessBody(FallbackAnswer, f1.results)))
\* Mutant: a failed HTTP call is tried a second time.
AfterLLMRetries(f, outcome) ==
    IF outcome.kind = "error" /\ Count(f.log, <<"call", "axios.post">>) < 2
    THEN Ok(Logged(Logged(f, <<"throw", "axios.post">>), <<"call", "axios.post">>))
    ELSE
    LET f1 == Logged(Logged(f, <<IF outcome.kind = "error" THEN "throw" ELSE "return",
                                 "axios.post">>),
                     <<"return", "generateAnswer">>)
    IN  Ok(Respond([f1 EXCEPT !.llm = outcome.kind, !.outcomes.llm = outcome], 200,
                   SuccessBody(GenerateAnswerSettle(outcome, f.prompt), f1.results)))
\* From the settlement of axios.post to the response.
AfterLLM(f, outcome) ==
    LET f1 == Logged(Logged(f, <<IF outcome.kind = "error" THEN "throw" ELSE "return",
                                 "axios.post">>),
                     <<"return", "generateAnswer">>)
    IN  Ok(Respond([f1 EXCEPT !.llm = outcome.kind, !.outcomes.llm = outcome], 200,
                   SuccessBody(GenerateAnswerSettle(outcome, f.prompt), f1.results)))
\* ---------------------------------------------------------------- inputs
ValidId == Str(<<"6", "5", "1", "a", "8", "4", "f", "3", "e", "6", "a", "0",
                 "d", "4", "c", "8", "8", "5", "9", "0", "6", "f", "2", "3">>)
BadId   == Str(<<"not-a-valid-id">>)
QueryInputs  == {Undefined, Null, Num(10), Str(<<>>), Str(<<" ">>), Str(<<" ", " ">>),
                 Str(<<"frontend", " ", "jobs">>)}
TopKInputs   == {Undefined, Null, Str(<<"5">>), Num(0), Num(-2), Num(3), Num(4), Num(6)}
FieldNames   == {"companyId", "experienceLevel", "location"}
FilterValues == {ValidId, BadId, Str(<<"Dhaka">>), Obj(<<>>),
                 Obj(<<<<"$gt", Num(2)>>, <<"boost", Num(3)>>, <<"$lte", Num(4)>>>>)}
Props(n)     == {e \in [1..n -> FieldNames \X FilterValues] :
                   \A i, j \in 1..n : i # j => e[i][1] # e[j][1]}
FilterObjects == UNION {Props(n) : n \in 0..MaxFields}
FiltersInputs == {Undefined, Null, Num(4), Str(<<"a", "b">>)}
                 \cup {Obj(e) : e \in FilterObjects}
\* req.body as express.json() leaves it: an object, or undefined when no
\* JSON body was parsed (Express 5 leaves req.body unset in that case).
Present(props) == SelectSeq(props, LAMBDA p : p[2] # Undefined)
Bodies == {Undefined} \cup
          {Obj(Present(<<<<"query", q>>, <<"filters", fl>>, <<"topK", k>>>>)) :
             q \in QueryInputs, fl \in FiltersInputs, k \in TopKInputs}

Vector == <<Num(1), Num(-1)>>
EmbeddingOutcomes ==
    {[kind |-> "reject", raw |-> Undefined]} \cup
    {[kind |-> "resolve", raw |-> r] :
       r \in {Arr(Vector), [t |-> "typed", a |-> Vector], Arr(<<Str(<<"x">>)>>),
              Undefined}}
Documents == {[text |-> Str(<<"Frontend Developer at Acme, Dhaka">>),
               metadata |-> "job-1", score |-> 90],
              [text |-> Str(<<"Backend Engineer at Beta, Sylhet">>),
               metadata |-> "job-2", score |-> 75],
              [text |-> Undefined, metadata |-> "company-1", score |-> 60]}
\* The index returns at most limit documents.
SearchOutcomes(limit) ==
    {[kind |-> "reject", docs |-> <<>>]} \cup
    {[kind |-> "resolve", docs |-> d] :
       d \in {x \in UNION {[1..n -> Documents] : n \in 0..MaxDocs} :
                2 * Len(x) <= limit.n2}}
Generated(text) == Obj(<<<<"generated_text", text>>>>)
LLMOutcomes(prompt) ==
    {[kind |-> k, data |-> Undefined] : k \in {"error"}} \cup
    {[kind |-> "response", data |-> d] :
       d \in {Arr(<<Generated(Str(prompt \o <<" ", "Acme is hiring.", " ">>))>>),
              Arr(<<Generated(Str(<<"Acme is hiring.">>))>>),
              Arr(<<Generated(Str(prompt))>>),
              Arr(<<Generated(Str(<<" ">>))>>),
              Arr(<<Obj(<<<<"error", Str(<<"loading">>)>>>>)>>),
              Arr(<<Null>>),
              Arr(<<>>),
              Generated(Str(<<"Beta is hiring.">>)),
              Generated(Num(14)),
              Obj(<<<<"error", Str(<<"loading">>)>>>>),
              Null}}

\* ---------------------------------------------------------------- actions
NoPrev     == [kind |-> "none"]
SeedNotRun == [pc |-> "notRun"]
\* App and MessageInput as first rendered: the useState initial values; no
\* call of sendQueryToRAG is pending and none has settled.
ChatMounted ==
    [messages |-> <<>>, isLoading |-> FALSE, errorText |-> <<>>, text |-> <<>>,
     pending |-> <<>>, replies |-> <<>>]
Init ==
    /\ alive = TRUE
    /\ embedder = "null"
    /\ embedderInit = "loading"
    /\ knowledgeCol = "null"
    /\ HF_API_TOKEN \in BOOLEAN
    /\ h = IdleFrame
    /\ prev = NoPrev
    /\ seed = SeedNotRun
    /\ chat = ChatMounted

\* initEmbedder: the pipeline() promise resolves and embedder is assigned.
InitEmbedderResolves ==
    /\ alive /\ embedderInit = "loading"
    /\ embedder' = "ready" /\ embedderInit' = "done"
    /\ UNCHANGED <<alive, knowledgeCol, HF_API_TOKEN, h, prev, seed, chat>>
\* initEmbedder rejects: the error is logged and embedder stays null.
InitEmbedderRejects ==
    /\ alive /\ embedderInit = "loading"
    /\ embedderInit' = "failed"
    /\ UNCHANGED <<alive, embedder, knowledgeCol, HF_API_TOKEN, h, prev, seed, chat>>
\* client.connect() resolves and knowledgeCol is assigned.
MongoConnects ==
    /\ alive /\ knowledgeCol = "null"
    /\ knowledgeCol' = "ready"
    /\ UNCHANGED <<alive, embedder, embedderInit, HF_API_TOKEN, h, prev, seed, chat>>
\* client.connect() rejects: process.exit(1); nothing of the process remains.
MongoConnectFails ==
    /\ alive /\ knowledgeCol = "null"
    /\ alive' = FALSE
    /\ embedder' = "null" /\ embedderInit' = "failed"
    /\ h' = IdleFrame
    /\ UNCHANGED <<knowledgeCol, HF_API_TOKEN, prev, seed, chat>>

\* Express hands a POST /query request to the handler.
Receive ==
    /\ alive /\ h.pc = "idle"
    /\ \E body \in Bodies :
          h' = Settle(CatchPipelineError(StartBody(IdleFrame, body)))
    /\ UNCHANGED <<alive, embedder, embedderInit, knowledgeCol, HF_API_TOKEN, prev, seed, chat>>
\* The promise of getEmbedding settles.
EmbeddingSettles ==
    /\ alive /\ h.pc = "awaitEmbedding"
    /\ \E outcome \in EmbeddingOutcomes :
          /\ h.embedderAtCall # "ready" => outcome.kind = "reject"
          /\ h' = Settle(CatchPipelineError(AfterEmbedding(h, outcome)))
    /\ UNCHANGED <<alive, embedder, embedderInit, knowledgeCol, HF_API_TOKEN, prev, seed, chat>>
\* The promise of knowledgeCol.aggregate(pipeline).toArray() settles.
SearchSettles ==
    /\ alive /\ h.pc = "awaitSearch"
    /\ \E outcome \in SearchOutcomes(h.stage.limit) :
          h' = Settle(CatchPipelineError(AfterSearch(h, outcome)))
    /\ UNCHANGED <<alive, embedder, embedderInit, knowledgeCol, HF_API_TOKEN, prev, seed, chat>>
\* The promise of axios.post settles.
LLMSettles ==
    /\ alive /\ h.pc = "awaitLLM"
    /\ \E outcome \in LLMOutcomes(h.prompt) :
          h' = Settle(CatchPipelineError(AfterLLM(h, outcome)))
    /\ UNCHANGED <<alive, embedder, embedderInit, knowledgeCol, HF_API_TOKEN, prev, seed, chat>>
\* The handler has returned; its frame is dropped.
HandlerReturns ==
    /\ alive /\ h.pc = "done"
    /\ h' = IdleFrame
    /\ UNCHANGED <<alive, embedder, embedderInit, knowledgeCol, HF_API_TOKEN, prev, seed, chat>>

Next ==
    \/ InitEmbedderResolves
    \/ InitEmbedderRejects
    \/ MongoConnects
    \/ MongoConnectFails
    \/ Receive
    \/ EmbeddingSettles
    \/ SearchSettles
    \/ LLMSettles
    \/ HandlerReturns
Spec == Init /\ [][Next]_vars

\* ------------------------------------------- the same request sent twice
\* One client sends a valid request, keeps the response, and later sends the
\* same request again to the same process. The embedding pipeline, the index
\* and the generator are deterministic: a call repeated with the same
\* argument settles as it did the first time.
RepeatBodies ==
    {Obj(<<<<"query", Str(<<"frontend", " ", "jobs">>)>>>>),
     Obj(<<<<"query", Str(<<"frontend", " ", "jobs">>)>>, <<"topK", Num(4)>>>>),
     Obj(<<<<"query", Str(<<"frontend", " ", "jobs">>)>>,
           <<"filters", Obj(<<<<"companyId", ValidId>>>>)>>>>)}
Remembered(f) ==
    [kind |-> "done", body |-> f.body, response |-> f.responses[1],
     outcomes |-> f.outcomes]
SameAsBefore(stage, outcome) ==
    IF prev = NoPrev THEN TRUE
    ELSE IF prev.outcomes[stage] = NoOutcome THEN TRUE
    ELSE outcome = prev.outcomes[stage]
ReceiveFirst ==
    /\ alive /\ h.pc = "idle" /\ prev = NoPrev
    /\ \E body \in RepeatBodies :
          h' = Settle(CatchPipelineError(StartBody(IdleFrame, body)))
    /\ UNCHANGED <<alive, embedder, embedderInit, knowledgeCol, HF_API_TOKEN, prev, seed, chat>>
\* The first handler has returned and the client holds its response.
FirstReturns ==
    /\ alive /\ h.pc = "done" /\ prev = NoPrev
    /\ prev' = Remembered(h)
    /\ h' = IdleFrame
    /\ UNCHANGED <<alive, embedder, embedderInit, knowledgeCol, HF_API_TOKEN, seed, chat>>
ReceiveAgain ==
    /\ alive /\ h.pc = "idle" /\ prev # NoPrev
    /\ h' = Settle(CatchPipelineError(StartBody(IdleFrame, prev.body)))
    /\ UNCHANGED <<alive, embedder, embedderInit, knowledgeCol, HF_API_TOKEN, prev, seed, chat>>
EmbeddingSettlesRepeatable ==
    /\ alive /\ h.pc = "awaitEmbedding"
    /\ \E outcome \in EmbeddingOutcomes :
          /\ h.embedderAtCall # "ready" => outcome.kind = "reject"
          /\ h.embedderAtCall = "ready" => SameAsBefore("embedding", outcome)
          /\ h' = Settle(CatchPipelineError(AfterEmbedding(h, outcome)))
    /\ UNCHANGED <<alive, embedder, embedderInit, knowledgeCol, HF_API_TOKEN, prev, seed, chat>>
SearchSettlesRepeatable ==
    /\ alive /\ h.pc = "awaitSearch"
    /\ \E outcome \in SearchOutcomes(h.stage.limit) :
          /\ SameAsBefore("search", outcome)
          /\ h' = Settle(CatchPipelineError(AfterSearch(h, outcome)))
    /\ UNCHANGED <<alive, embedder, embedderInit, knowledgeCol, HF_API_TOKEN, prev, seed, chat>>
LLMSettlesRepeatable ==
    /\ alive /\ h.pc = "awaitLLM"
    /\ \E outcome \in LLMOutcomes(h.prompt) :
          /\ SameAsBefore("llm", outcome)
          /\ h' = Settle(CatchPipelineError(AfterLLM(h, outcome)))
    /\ UNCHANGED <<alive, embedder, embedderInit, knowledgeCol, HF_API_TOKEN, prev, seed, chat>>
IdemNext ==
    \/ InitEmbedderResolves
    \/ InitEmbedderRejects
    \/ MongoConnects
    \/ MongoConnectFails
    \/ ReceiveFirst
    \/ FirstReturns
    \/ ReceiveAgain
    \/ EmbeddingSettlesRepeatable
    \/ SearchSettlesRepeatable
    \/ LLMSettlesRepeatable
IdemSpec == Init /\ [][IdemNext]_vars

\* --------------------- scripts/create_collections_and_dummy_data.js: main
NumUsers        == 15
NumCompanies    == 15
NumJobs         == 15
NumApplications == 15
collectionsToReset == <<"users", "companies", "jobs", "applications">>
\* new ObjectId(): the n-th identifier made by this run.
FreshObjectId(n) == [t |-> "ObjectId", n |-> n]
\* A collection: stale when it holds what an earlier run left, and the
\* documents inserted by this run.
EmptyCollection  == [stale |-> FALSE, docs |-> <<>>]
SeedServerIdle ==
    UNCHANGED <<alive, embedder, embedderInit, knowledgeCol, HF_API_TOKEN, h, prev,
                chat>>
\* main() up to client.connect(): process.exit(1) without MONGODB_URI.
SeedLoaded(uri, stale) ==
    [pc |-> IF uri THEN "connect" ELSE "exited", code |-> IF uri THEN -1 ELSE 1,
     idx |-> 1, i |-> 1, made |-> 0, dropped |-> <<>>,
     db |-> [name \in Range(collectionsToReset) |->
                [stale |-> name \in stale, docs |-> <<>>]],
     userIds |-> <<>>, companyIds |-> <<>>, jobIds |-> <<>>, applicationIds |-> <<>>,
     createdByUser |-> Undefined]
\* catch: the error is logged; finally: client.close() and process.exit(0).
SeedCaught(s) == [s EXCEPT !.pc = "exited", !.code = 0]
\* The script has run to the end of the try block.
SeedComplete(s) == [s EXCEPT !.pc = "exited", !.code = 0]
SeedInsert(s, name, doc) == [s EXCEPT !.db[name].docs = Append(@, doc)]
\* The next name of collectionsToReset, or the users loop after the last.
SeedNextCollection(s) ==
    IF s.idx < Len(collectionsToReset)
    THEN [s EXCEPT !.idx = @ + 1, !.pc = "list"]
    ELSE [s EXCEPT !.pc = "users", !.i = 1]
userDoc(i, uid) ==
    [_id |-> uid, fullname |-> i,
     role |-> IF i % 2 = 0 THEN "recruiter" ELSE "applicant"]
recruiterIndex(i, userIds) == (i * 2 - 2) % Len(userIds)
\* userIds[recruiterIndex]: JavaScript arrays are indexed from 0.
companyDoc(i, cid, userIds) ==
    [_id |-> cid, name |-> i, userId |-> userIds[recruiterIndex(i, userIds) + 1]]
compIndex(i, companyIds) == (i - 1) % Len(companyIds)
jobDoc(i, jid, companyId, createdByUser) ==
    [_id |-> jid, position |-> i, company |-> companyId,
     created_by |-> createdByUser, applications |-> <<>>]
\* userIds.filter((uid, idx) => idx % 2 === 0)
applicantCandidates(userIds) ==
    SelectSeq([k \in DOMAIN userIds |-> <<k - 1, userIds[k]>>],
              LAMBDA e : e[1] % 2 = 0)
applicationDoc(i, aid, jobId, userIds) ==
    [_id |-> aid, job |-> jobId,
     applicant |-> applicantCandidates(userIds)
                     [((i - 1) % Len(applicantCandidates(userIds))) + 1][2]]
\* companiesCol.findOne({ _id }): the document, or null.
findOne(docs, id) ==
    IF \E k \in DOMAIN docs : docs[k]._id = id
    THEN docs[CHOOSE k \in DOMAIN docs : docs[k]._id = id]
    ELSE Null
\* jobsCol.updateOne({ _id: jobId }, { $push: { applications: aid } })
PushApplication(docs, jobId, aid) ==
    [k \in DOMAIN docs |->
        IF docs[k]._id = jobId
        THEN [docs[k] EXCEPT !.applications = Append(@, aid)] ELSE docs[k]]

\* node create_collections_and_dummy_data.js
SeedStart ==
    /\ seed = SeedNotRun
    /\ \E uri \in BOOLEAN, stale \in SUBSET Range(collectionsToReset) :
          seed' = SeedLoaded(uri, stale)
    /\ SeedServerIdle
\* await client.connect()
SeedConnectSettles ==
    /\ seed.pc = "connect"
    /\ \E ok \in BOOLEAN :
          seed' = IF ok THEN [seed EXCEPT !.pc = "list", !.idx = 1]
                  ELSE SeedCaught(seed)
    /\ SeedServerIdle
\* await db.listCollections({ name }).toArray()
SeedListSettles ==
    /\ seed.pc = "list"
    /\ \E ok \in BOOLEAN :
          seed' = IF ~ok THEN SeedCaught(seed)
                  ELSE IF seed.db[collectionsToReset[seed.idx]].stale
                  THEN [seed EXCEPT !.pc = "drop"]
                  ELSE SeedNextCollection(seed)
    /\ SeedServerIdle
\* await db.collection(name).drop(), and the line logged for it.
SeedDropSettles ==
    /\ seed.pc = "drop"
    /\ \E ok \in BOOLEAN :
          seed' = IF ~ok THEN SeedCaught(seed)
                  ELSE SeedNextCollection(
                          [seed EXCEPT !.db[collectionsToReset[seed.idx]] =
                                           EmptyCollection,
                                       !.dropped =
                                           Append(@, collectionsToReset[seed.idx])])
    /\ SeedServerIdle
\* One turn of the users loop, to the settlement of usersCol.insertOne.
SeedInsertUser ==
    /\ seed.pc = "users"
    /\ \E ok \in BOOLEAN :
          LET uid == FreshObjectId(seed.made + 1)
              s1  == [seed EXCEPT !.made = @ + 1, !.userIds = Append(@, uid)]
          IN  seed' = IF ~ok THEN SeedCaught(s1)
                      ELSE LET s2 == SeedInsert(s1, "users", userDoc(seed.i, uid)) IN
                           IF seed.i < NumUsers THEN [s2 EXCEPT !.i = @ + 1]
                           ELSE [s2 EXCEPT !.pc = "companies", !.i = 1]
    /\ SeedServerIdle
\* One turn of the companies loop, to the settlement of insertOne.
SeedInsertCompany ==
    /\ seed.pc = "companies"
    /\ \E ok \in BOOLEAN :
          LET cid == FreshObjectId(seed.made + 1)
              s1  == [seed EXCEPT !.made = @ + 1, !.companyIds = Append(@, cid)]
          IN  seed' = IF ~ok THEN SeedCaught(s1)
                      ELSE LET s2 == SeedInsert(s1, "companies",
                                                companyDoc(seed.i, cid, seed.userIds))
                           IN  IF seed.i < NumCompanies THEN [s2 EXCEPT !.i = @ + 1]
                               ELSE [s2 EXCEPT !.pc = "findCompany", !.i = 1]
    /\ SeedServerIdle
\* The jobs loop to the settlement of companiesCol.findOne; reading userId of
\* a null result throws.
SeedFindCompany ==
    /\ seed.pc = "findCompany"
    /\ \E ok \in BOOLEAN :
          LET jid   == FreshObjectId(seed.made + 1)
              s1    == [seed EXCEPT !.made = @ + 1, !.jobIds = Append(@, jid)]
              found == findOne(seed.db["companies"].docs,
                               seed.companyIds[compIndex(seed.i, seed.companyIds) + 1])
          IN  seed' = IF ~ok \/ found = Null THEN SeedCaught(s1)
                      ELSE [s1 EXCEPT !.pc = "jobs", !.createdByUser = found.userId]
    /\ SeedServerIdle
\* The rest of the turn, to the settlement of jobsCol.insertOne.
SeedInsertJob ==
    /\ seed.pc = "jobs"
    /\ \E ok \in BOOLEAN :
          LET companyId == seed.companyIds[compIndex(seed.i, seed.companyIds) + 1]
              s1 == SeedInsert(seed, "jobs",
                               jobDoc(seed.i, seed.jobIds[Len(seed.jobIds)], companyId,
                                      seed.createdByUser))
          IN  seed' = IF ~ok THEN SeedCaught(seed)
                      ELSE IF seed.i < NumJobs
                      THEN [s1 EXCEPT !.pc = "findCompany", !.i = @ + 1]
                      ELSE [s1 EXCEPT !.pc = "applications", !.i = 1]
    /\ SeedServerIdle
\* One turn of the applications loop to the settlement of insertOne.
SeedInsertApplication ==
    /\ seed.pc = "applications"
    /\ \E ok \in BOOLEAN :
          LET aid == FreshObjectId(seed.made + 1)
              s1  == [seed EXCEPT !.made = @ + 1, !.applicationIds = Append(@, aid)]
          IN  seed' = IF ~ok THEN SeedCaught(s1)
                      ELSE [SeedInsert(s1, "applications",
                                       applicationDoc(seed.i, aid, seed.jobIds[seed.i],
                                                      seed.userIds))
                              EXCEPT !.pc = "updateJob"]
    /\ SeedServerIdle
\* The rest of the turn, to the settlement of jobsCol.updateOne.
SeedUpdateJob ==
    /\ seed.pc = "updateJob"
    /\ \E ok \in BOOLEAN :
          LET s1 == [seed EXCEPT !.db["jobs"].docs =
                        PushApplication(@, seed.jobIds[seed.i],
                                        seed.applicationIds[Len(seed.applicationIds)])]
          IN  seed' = IF ~ok THEN SeedCaught(seed)
                      ELSE IF seed.i < NumApplications
                      THEN [s1 EXCEPT !.pc = "applications", !.i = @ + 1]
                      ELSE SeedComplete(s1)
    /\ SeedServerIdle
SeedNext ==
    \/ SeedStart
    \/ SeedConnectSettles
    \/ SeedListSettles
    \/ SeedDropSettles
    \/ SeedInsertUser
    \/ SeedInsertCompany
    \/ SeedFindCompany
    \/ SeedInsertJob
    \/ SeedInsertApplication
    \/ SeedUpdateJob
SeedSpec == Init /\ [][SeedNext]_vars

\* ------------------------------------- frontend_chat: App and MessageInput
ErrRagReturned  == <<"RAG returned an error.">>
ErrFetchFailed  == <<"Failed to fetch from backend.">>
NoAnswerFound   == Str(<<"No answer found.">>)
\* The payload sendQueryToRAG posts for handleSend's call.
ChatPayload(userText) ==
    Obj(<<<<"query", Str(userText)>>,
          <<"filters", Obj(<<<<"location", Str(<<"Dhaka">>)>>,
                             <<"experienceLevel", Obj(<<<<"$lte", Num(4)>>>>)>>>>)>>,
          <<"topK", Num(6)>>>>)
\* Input and Button carry isDisabled={isLoading}: a disabled control gets
\* no change, key or click event.
InputDisabledNever(c) == FALSE
InputDisabled(c) == c.isLoading
\* handleSend up to its await: the user message, isLoading, errorText, and
\* the call of sendQueryToRAG left pending.
handleSend(c, userText) ==
    [c EXCEPT !.messages  = Append(@, [sender |-> "user", text |-> Str(userText)]),
              !.isLoading = TRUE,
              !.errorText = <<>>,
              !.pending   = Append(@, ChatPayload(userText))]
\* handleKeyDown and handleClick of MessageInput.
handleKeyDown(c, key) ==
    IF key = "Enter" /\ Trim(c.text) # <<>>
    THEN [handleSend(c, Trim(c.text)) EXCEPT !.text = <<>>]
    ELSE c
handleClick(c) ==
    IF Trim(c.text) # <<>>
    THEN [handleSend(c, Trim(c.text)) EXCEPT !.text = <<>>]
    ELSE c
Without(seq, k) == SubSeq(seq, 1, k - 1) \o SubSeq(seq, k + 1, Len(seq))
\* Mutant: the reply is shown whether or not the backend reported success.
handleSendSettlesShowsAll(c, k, outcome) ==
    LET c1 == [c EXCEPT !.pending = Without(@, k), !.isLoading = FALSE,
                        !.replies = Append(@, outcome)] IN
    IF outcome.kind = "reject" \/ outcome.data.t \in {"null", "undefined"}
    THEN [c1 EXCEPT !.errorText = ErrFetchFailed]
    ELSE [c1 EXCEPT !.messages =
                 Append(@, [sender |-> "bot",
                            text |-> IF Truthy(GetProp(outcome.data, "answer"))
                                     THEN GetProp(outcome.data, "answer")
                                     ELSE NoAnswerFound])]
\* handleSend from the settlement of sendQueryToRAG: the try body after the
\* await, the catch (a rejected call, or the TypeError of reading success of
\* a null response) and the finally.
handleSendSettles(c, k, outcome) ==
    LET c1 == [c EXCEPT !.pending = Without(@, k), !.isLoading = FALSE,
                        !.replies = Append(@, outcome)] IN
    IF outcome.kind = "reject" \/ outcome.data.t \in {"null", "undefined"}
    THEN [c1 EXCEPT !.errorText = ErrFetchFailed]
    ELSE IF Truthy(GetProp(outcome.data, "success"))
    THEN [c1 EXCEPT !.messages =
                 Append(@, [sender |-> "bot",
                            text |-> IF Truthy(GetProp(outcome.data, "answer"))
                                     THEN GetProp(outcome.data, "answer")
                                     ELSE NoAnswerFound])]
    ELSE [c1 EXCEPT !.errorText = ErrRagReturned]
\* What the user types and presses.
TypedTexts == {<<>>, <<" ">>, <<"jobs">>, <<" ", "pay", " ">>}
Keys       == {"Enter", "a"}
\* sendQueryToRAG: response.data of a 2xx reply, or the rethrown axios error
\* (no reply, or a status outside 2xx such as the 400 and 500 of the server).
ChatReply(success, answer) ==
    Obj(<<<<"success", Bool(success)>>, <<"answer", answer>>,
          <<"sources", Arr(<<>>)>>>>)
ChatOutcomes ==
    {[kind |-> "reject", data |-> Undefined]} \cup
    {[kind |-> "resolve", data |-> d] :
       d \in {ChatReply(TRUE, Str(FallbackAnswer)), ChatReply(TRUE, Str(<<>>)),
              Obj(<<<<"success", Bool(FALSE)>>, <<"error", Str(ErrPipeline)>>>>),
              Null}}
UserSends(c) == Cardinality({i \in DOMAIN c.messages : c.messages[i].sender = "user"})
ChatServerIdle ==
    UNCHANGED <<alive, embedder, embedderInit, knowledgeCol, HF_API_TOKEN, h, prev,
                seed>>
\* onChange of the Input.
TypeText ==
    /\ ~InputDisabled(chat)
    /\ \E value \in TypedTexts : chat' = [chat EXCEPT !.text = value]
    /\ ChatServerIdle
\* onKeyDown of the Input.
PressKey ==
    /\ ~InputDisabled(chat) /\ UserSends(chat) < MaxSends
    /\ \E key \in Keys : chat' = handleKeyDown(chat, key)
    /\ ChatServerIdle
\* onClick of the Button.
ClickSend ==
    /\ ~InputDisabled(chat) /\ UserSends(chat) < MaxSends
    /\ chat' = handleClick(chat)
    /\ ChatServerIdle
\* The promise of a pending sendQueryToRAG settles.
ChatCallSettles ==
    /\ \E k \in DOMAIN chat.pending, outcome \in ChatOutcomes :
          chat' = handleSendSettles(chat, k, outcome)
    /\ ChatServerIdle
ChatNext ==
    \/ TypeText
    \/ PressKey
    \/ ClickSend
    \/ ChatCallSettles
ChatSpec == Init /\ [][ChatNext]_vars

TypeOK == h.pc \in {"idle", "awaitEmbedding", "awaitSearch", "awaitLLM", "done"}
\* ===================================================== properties checked
Done          == h.pc = "done"
Resp          == h.responses[1]
Calls(callee) == Count(h.log, <<"call", callee>>)
Contains(message, name) == \E i \in DOMAIN message : message[i] = name
\* The request as the client sent it.
SentQuery     == GetProp(h.body, "query")
SentTopK      == GetProp(h.body, "topK")
SentFilters   == GetProp(h.body, "filters")
QueryIsValid  == /\ SentQuery.t = "string"
                 /\ \E i \in DOMAIN SentQuery.s : SentQuery.s[i] # " "
TopKIsPositiveInteger ==
    \/ SentTopK = Undefined
    \/ SentTopK.t = "number" /\ SentTopK.n2 > 0 /\ SentTopK.n2 % 2 = 0
TopKIsPositiveNumber ==
    SentTopK = Undefined \/ (SentTopK.t = "number" /\ SentTopK.n2 > 0)
FilterProps   == IF SentFilters.t = "object" THEN SentFilters.e ELSE <<>>
RecognisedBounds == {"$lt", "$lte", "$gt", "$gte"}
IsBoundlessObject(v) ==
    v.t = "object" /\ \A i \in DOMAIN v.e : v.e[i][1] \notin RecognisedBounds
IsBadCompanyId(p) ==
    /\ p[1] = "companyId"
    /\ ~(p[2].t = "string" /\ Len(p[2].s) = 24
         /\ \A i \in DOMAIN p[2].s : p[2].s[i] \in HexDigits)
IsBadRange(p)     == p[1] # "companyId" /\ IsBoundlessObject(p[2])
IsMalformed(p)    == IsBadCompanyId(p) \/ IsBadRange(p)

\* C1: every request, whatever its body and whatever the embedding, search
\* and generation calls do, gets exactly one response with a boolean success
\* field once the handler has finished, none before, and no exception leaves
\* the handler.
C1_ExactlyOneResponse ==
    /\ ~h.escaped
    /\ Len(h.responses) = (IF Done THEN 1 ELSE 0)
    /\ Done => /\ "success" \in Resp.body.keys
               /\ Resp.body.success \in BOOLEAN
               /\ Resp.status \in {200, 400, 500}
\* C1 witness: the index handle was still null when the handler got to the
\* search; the handler answered once, with success = FALSE.
C1_Witness ==
    /\ Done /\ h.threwAt = "knowledgeCol" /\ knowledgeCol = "null"
    /\ Len(h.responses) = 1 /\ Resp.body.success = FALSE

\* C2 (as claimed): a request without a usable query - missing, not a
\* string, empty or whitespace-only - is answered 400 with success = FALSE
\* and no embedding, search or generation call is made.
C2_InvalidQueryIs400 ==
    (Done /\ ~QueryIsValid) =>
        /\ Resp.status = 400 /\ Resp.body.success = FALSE
        /\ h.log = <<>>

\* C3 (as claimed): a request that reaches the embedding call has a positive
\* integer topK, and a request with a valid query whose topK is not a
\* positive integer is answered 400 with no downstream call.
C3_TopKPositiveInteger ==
    /\ Calls("getEmbedding") > 0 => IsInteger(h.topK) /\ h.topK.n2 > 0
    /\ (Done /\ QueryIsValid /\ ~TopKIsPositiveInteger) =>
          /\ Resp.status = 400 /\ Resp.body.success = FALSE
          /\ h.log = <<>>

\* C4 (as claimed): a request with a valid query and topK and a malformed
\* filter makes no downstream call, not even the embedding call, and is
\* answered 400.
C4_MalformedFilterNoCall ==
    (h.pc # "idle" /\ QueryIsValid /\ TopKIsPositiveNumber
       /\ \E i \in DOMAIN FilterProps : IsMalformed(FilterProps[i])) =>
        /\ h.log = <<>>
        /\ Done => Resp.status = 400
ValidRequest   == h.body.t = "object" /\ QueryIsValid /\ TopKIsPositiveNumber

\* C5 (as claimed): a valid query and topK with an invalid companyId among
\* the filters always ends in success = FALSE with the invalid-identifier
\* error for companyId, translation stopping at that field, and no search.
C5_BadCompanyIdNamed ==
    \A i \in DOMAIN FilterProps :
        (Done /\ ValidRequest /\ IsBadCompanyId(FilterProps[i])) =>
            /\ Resp.body.success = FALSE
            /\ Resp.body.error = ErrObjectId
            /\ h.translation.visited = i
            /\ Calls("aggregate") = 0
\* C6 (as claimed): a valid query and topK with some field other than
\* companyId mapped to an object without any recognised bound always ends
\* in success = FALSE with an error containing that field's name, and no
\* search.
C6_BadRangeNamed ==
    \A i \in DOMAIN FilterProps :
        (Done /\ ValidRequest /\ IsBadRange(FilterProps[i])) =>
            /\ Resp.body.success = FALSE
            /\ Contains(Resp.body.error, FilterProps[i][1])
            /\ Calls("aggregate") = 0

\* The clause the claim expects for one filter field.
IsScalar(v)     == v.t \in {"string", "number", "null"}
ExactBounds(cond, mql) ==
    /\ mql.t = "object"
    /\ Range(mql.e) = {p \in Range(cond.e) : p[1] \in RecognisedBounds}
    /\ Len(mql.e) = Cardinality(Range(mql.e))
ClauseAsClaimed(p, clause) ==
    /\ clause[1] = "metadata." \o p[1]
    /\ IF IsScalar(p[2]) THEN clause[2] = p[2] ELSE ExactBounds(p[2], clause[2])
ClauseAsAmended(p, clause) ==
    /\ clause[1] = "metadata." \o p[1]
    /\ IF p[1] = "companyId"
       THEN clause[2] = [t |-> "ObjectId", hex |-> p[2].s]
       ELSE IF IsScalar(p[2]) THEN clause[2] = p[2]
       ELSE ExactBounds(p[2], clause[2])
SearchedProps == OwnProps(h.filters)

\* C7 (as claimed): the predicate handed to the search is the AND of one
\* clause per filter field, keyed metadata.<field>: the value itself for a
\* scalar, exactly the recognised bounds for a range object; no predicate is
\* attached when there is no filter field.
C7_PredicateAsClaimed ==
    Calls("aggregate") > 0 =>
        /\ h.stage.attached <=> Len(SearchedProps) > 0
        /\ Len(h.stage.filter) = Len(SearchedProps)
        /\ \A i \in DOMAIN SearchedProps :
              ClauseAsClaimed(SearchedProps[i], h.stage.filter[i])
\* C7 (amended): as claimed, except that the companyId field, whose value is
\* a valid identifier string, becomes an equality clause with the ObjectId
\* built from that string instead of the string itself.
C7_PredicateTranslated ==
    Calls("aggregate") > 0 =>
        /\ h.stage.attached <=> Len(SearchedProps) > 0
        /\ Len(h.stage.filter) = Len(SearchedProps)
        /\ \A i \in DOMAIN SearchedProps :
              ClauseAsAmended(SearchedProps[i], h.stage.filter[i])
\* C7 witness: a search carrying a companyId clause and a range clause whose
\* source object had an unrecognised key beside its bounds.
C7_Witness ==
    /\ h.pc = "awaitSearch" /\ h.stage.attached /\ Len(h.stage.filter) = 2
    /\ SearchedProps[1][1] = "companyId"
    /\ SearchedProps[2][2].t = "object" /\ Len(SearchedProps[2][2].e) = 3
    /\ Len(h.stage.filter[2][2].e) = 2
NothingThrew  == h.threwAt = "none"
Before(ev1, ev2) ==
    \A i \in DOMAIN h.log :
        h.log[i] = ev2 => \E j \in 1..(i - 1) : h.log[j] = ev1

\* C8: in one request getEmbedding, aggregate, generateAnswer and axios.post
\* are each called at most once, whatever fails; aggregate is called only
\* after getEmbedding has returned and generateAnswer only after aggregate
\* has returned; and a finished valid request with no filter field in which
\* nothing threw made exactly one embedding call, exactly one search call,
\* and one generation call exactly when the search returned a document.
C8_CallsOnceInOrder ==
    /\ \A callee \in {"getEmbedding", "aggregate", "generateAnswer", "axios.post"} :
          Calls(callee) <= 1
    /\ Before(<<"return", "getEmbedding">>, <<"call", "aggregate">>)
    /\ Before(<<"return", "aggregate">>, <<"call", "generateAnswer">>)
    /\ (Done /\ ValidRequest /\ Len(OwnProps(h.filters)) = 0 /\ NothingThrew) =>
          /\ Calls("getEmbedding") = 1
          /\ Calls("aggregate") = 1
          /\ Calls("generateAnswer") = (IF Len(h.results) > 0 THEN 1 ELSE 0)
\* C8 witness: a finished request without filters whose three calls were
\* made and returned.
C8_Witness ==
    /\ Done /\ ValidRequest /\ SentFilters = Undefined /\ NothingThrew
    /\ h.llm = "response" /\ Len(h.results) = 2
    /\ Len(h.log) = 8

\* C9: when the search returns no document the response is 200 with
\* success = TRUE, the fixed fallback answer and an empty sources list, and
\* generateAnswer is not called.
C9_NoDocumentsFallback ==
    (<<"return", "aggregate">> \in Range(h.log) /\ Len(h.results) = 0) =>
        /\ Done
        /\ Resp.status = 200 /\ Resp.body.success = TRUE
        /\ Resp.body.keys = {"success", "answer", "sources"}
        /\ Resp.body.answer = FallbackAnswer
        /\ Resp.body.sources = <<>>
        /\ Calls("generateAnswer") = 0 /\ Calls("axios.post") = 0
\* C9 witness: a search that returned nothing, answered with the fallback.
C9_Witness ==
    /\ Done /\ <<"return", "aggregate">> \in Range(h.log) /\ h.results = <<>>
    /\ Resp.body.answer = FallbackAnswer

\* C10: when the search returned documents whose texts are strings and the
\* generator's HTTP call raised an error, the response is 200 with
\* success = TRUE, the fixed fallback answer, and the retrieved documents as
\* sources.
C10_NetworkErrorFallback ==
    (Done /\ <<"throw", "axios.post">> \in Range(h.log)) =>
        /\ Len(h.results) > 0
        /\ \A i \in DOMAIN h.results : h.results[i].text.t = "string"
        /\ Resp.status = 200 /\ Resp.body.success = TRUE
        /\ Resp.body.answer = FallbackAnswer
        /\ Resp.body.sources = h.results
\* C10 witness: two documents retrieved, the HTTP call failed, the fallback
\* answer went out with both documents.
C10_Witness ==
    /\ Done /\ h.llm = "error" /\ Len(h.results) = 2
    /\ Resp.body.answer = FallbackAnswer /\ Len(Resp.body.sources) = 2

\* The documents the search call returned, as the index handed them over.
SearchReturned == <<"return", "aggregate">> \in Range(h.log)
Retrieved      == h.outcomes.search.docs
ErrorOnly      == {"success", "error"}

\* C11: a throw of generateAnswer itself (its argument validation) is
\* answered 500 with success = FALSE and the generation error string, without
\* answer or sources; a failed HTTP call inside generateAnswer never gives
\* success = FALSE.
C11_WrapperErrorSurfaces ==
    /\ (Done /\ <<"throw", "generateAnswer">> \in Range(h.log)) =>
          /\ Resp.status = 500 /\ Resp.body.success = FALSE
          /\ Resp.body.keys = ErrorOnly
          /\ Resp.body.error = ErrLLM
          /\ Calls("axios.post") = 0
    /\ (Done /\ <<"throw", "axios.post">> \in Range(h.log)) =>
          Resp.body.success = TRUE
\* C11 witness: a retrieved document without a string text made the argument
\* validation throw, and the 500 generation error went out.
C11_Witness ==
    /\ Done /\ h.threwAt = "generateAnswer"
    /\ \E i \in DOMAIN Retrieved : Retrieved[i].text.t # "string"
    /\ Resp.status = 500

NotNumericSequence(v) ==
    ~(v.t = "array" /\ \A i \in DOMAIN v.a : v.a[i].t = "number")
EmbeddingFailed ==
    \/ <<"throw", "getEmbedding">> \in Range(h.log)
    \/ h.embedded = "returned" /\ NotNumericSequence(h.qEmbedding)
SearchFailed == <<"throw", "aggregate">> \in Range(h.log)

\* C13: when getEmbedding throws, or its normalised result is not an array of
\* numbers, or the search throws, the response is 500 with success = FALSE
\* and the generic pipeline message, and no later stage is called.
C13_PipelineFailureIs500 ==
    /\ (EmbeddingFailed \/ SearchFailed) =>
          /\ Done
          /\ Resp.status = 500 /\ Resp.body.success = FALSE
          /\ Resp.body.keys = ErrorOnly
          /\ Resp.body.error = ErrPipeline
          /\ Calls("generateAnswer") = 0 /\ Calls("axios.post") = 0
    /\ EmbeddingFailed => Calls("aggregate") = 0
\* C13 witness: the embedding came back as an array holding a string.
C13_Witness ==
    /\ Done /\ h.embedded = "returned" /\ h.qEmbedding.t = "array"
    /\ \E i \in DOMAIN h.qEmbedding.a : h.qEmbedding.a[i].t = "string"
    /\ Resp.body.error = ErrPipeline

IsFilterError(error) == error = ErrObjectId \/ error[1] = "Invalid filter for '"
\* C14: success is TRUE exactly when the status is 200; a success body has
\* answer and sources and no error; a failure body has an error string and
\* neither answer nor sources; a 400 is the outcome of the query check, the
\* topK check or the filter translation on a request that fails it, and a 500
\* is sent exactly when something threw.
C14_StatusMatchesSuccess ==
    Done =>
        /\ Resp.body.success <=> Resp.status = 200
        /\ Resp.body.success => Resp.body.keys = {"success", "answer", "sources"}
        /\ ~Resp.body.success =>
              /\ Resp.body.keys = ErrorOnly
              /\ Resp.body.error # <<>>
              /\ Resp.status \in {400, 500}
        /\ Resp.status = 500 <=> ~NothingThrew
        /\ Resp.status = 400 =>
              \/ Resp.body.error = ErrQuery /\ ~QueryIsValid
              \/ Resp.body.error = ErrTopK /\ QueryIsValid /\ ~TopKIsPositiveNumber
              \/ /\ IsFilterError(Resp.body.error)
                 /\ \E i \in DOMAIN FilterProps : IsMalformed(FilterProps[i])
\* C14 witness: a 400 for a malformed filter, sent after the embedding
\* returned.
C14_Witness ==
    /\ Done /\ Resp.status = 400 /\ IsFilterError(Resp.body.error)
    /\ h.embedded = "returned"

\* C17 (as claimed): getEmbedding never runs while embedder is null and the
\* handler never reaches the search while knowledgeCol is null.
C17_HandlesInitialised ==
    /\ (Calls("getEmbedding") > 0 /\ h.embedderAtCall # "unused") =>
          h.embedderAtCall = "ready"
    /\ h.threwAt # "knowledgeCol"

NumberToken(i)  == "(" \o ToString(i) \o ") "
PromptPos(i)    == CHOOSE p \in DOMAIN h.prompt : h.prompt[p] = NumberToken(i)
FollowsAt(p, s) == /\ p + Len(s) <= Len(h.prompt)
                   /\ \A k \in DOMAIN s : h.prompt[p + k] = s[k]
\* C18: in a success response sources is the sequence of documents the search
\* returned, and the prompt sent to the generator carries, for each i from 1,
\* the token "(i) " followed by the text of sources[i-1], in increasing order.
C18_SourcesAndSnippetsInOrder ==
    (Done /\ Resp.body.success) =>
        /\ SearchReturned
        /\ Resp.body.sources = Retrieved
        /\ Calls("generateAnswer") > 0 =>
              /\ \A i \in DOMAIN Resp.body.sources :
                    /\ \E p \in DOMAIN h.prompt : h.prompt[p] = NumberToken(i)
                    /\ FollowsAt(PromptPos(i), Resp.body.sources[i].text.s)
                    /\ i > 1 => PromptPos(i - 1) < PromptPos(i)
              /\ \A p \in DOMAIN h.prompt :
                    h.prompt[p] # NumberToken(Len(Resp.body.sources) + 1)
\* C18 witness: two different documents retrieved and sent as sources after
\* the generator was called with both texts.
C18_Witness ==
    /\ Done /\ Resp.body.success /\ Calls("axios.post") = 1
    /\ Len(Resp.body.sources) = 2
    /\ Resp.body.sources[1] # Resp.body.sources[2]

\* C19 (as claimed): the answer of a success response is never the empty
\* string.
C19_AnswerNonEmpty ==
    (Done /\ Resp.body.success) => Resp.body.answer # <<>>

ReachedGeneration == SearchReturned /\ Len(Retrieved) > 0
TextsAreStrings   == \A i \in DOMAIN Retrieved : Retrieved[i].text.t = "string"
\* C12 (as claimed): without HF_API_TOKEN every request whose search returned
\* a document makes no HTTP call to the generator and ends with
\* success = TRUE and the fixed fallback answer.
C12_NoTokenFallback ==
    (~HF_API_TOKEN /\ ReachedGeneration) =>
        /\ Done
        /\ Calls("axios.post") = 0
        /\ Resp.body.success = TRUE
        /\ Resp.body.answer = FallbackAnswer
\* C12 (amended): without HF_API_TOKEN a request whose search returned a
\* document makes no HTTP call to the generator; it ends with success = TRUE
\* and the fixed fallback answer when every retrieved text is a string, and
\* with the 500 generation error when one is not, the argument validation of
\* generateAnswer running before the token is looked at.
C12_NoTokenNoNetwork ==
    (~HF_API_TOKEN /\ ReachedGeneration) =>
        /\ Done
        /\ Calls("axios.post") = 0
        /\ IF TextsAreStrings
           THEN /\ Resp.status = 200 /\ Resp.body.success = TRUE
                /\ Resp.body.answer = FallbackAnswer
                /\ Resp.body.sources = Retrieved
           ELSE /\ Resp.status = 500 /\ Resp.body.success = FALSE
                /\ Resp.body.error = ErrLLM
\* C12 witness: no token, two documents with string texts retrieved, the
\* fallback answer sent with generateAnswer called and no HTTP call made.
C12_Witness ==
    /\ ~HF_API_TOKEN /\ Done /\ ReachedGeneration
    /\ Len(Retrieved) = 2 /\ TextsAreStrings
    /\ Calls("generateAnswer") = 1 /\ Calls("axios.post") = 0
    /\ Resp.body.answer = FallbackAnswer

HasGeneratedText(v) ==
    v.t = "object" /\ \E i \in DOMAIN v.e : v.e[i][1] = "generated_text"
MalformedShape(d) ==
    ~ \/ d.t = "array" /\ Len(d.a) > 0 /\ HasGeneratedText(d.a[1])
      \/ HasGeneratedText(d)
GeneratorData   == h.outcomes.llm.data
GeneratorReplied ==
    Done /\ <<"return", "axios.post">> \in Range(h.log)
Answered == h.responses[1]
\* C15 (as claimed): the same valid request sent twice to the same process,
\* at any two moments, with deterministic embedding, index and generator,
\* gets the same status, success, answer and sources both times.
C15_SameRequestSameResponse ==
    (Done /\ prev # NoPrev /\ h.body = prev.body) =>
        /\ Answered.status = prev.response.status
        /\ Answered.body.success = prev.response.body.success
        /\ Answered.body.answer = prev.response.body.answer
        /\ Answered.body.sources = prev.response.body.sources

SeededCompanies == seed.db["companies"].docs
SeededUsers     == seed.db["users"].docs
\* C20 (as claimed): every company document the seeding script has inserted
\* has a userId that is the _id of an inserted user whose role is
\* "recruiter".
C20_CompanyOwnerIsRecruiter ==
    seed.pc # "notRun" =>
        \A c \in DOMAIN SeededCompanies :
            \E u \in DOMAIN SeededUsers :
                /\ SeededUsers[u]._id = SeededCompanies[c].userId
                /\ SeededUsers[u].role = "recruiter"

InFlight     == Len(chat.pending)
SendStep     == Len(chat'.pending) > Len(chat.pending)
SettleStep   == Len(chat'.replies) > Len(chat.replies)
\* C21: in the chat client isLoading is TRUE exactly while a call of
\* sendQueryToRAG is pending, at most one call is pending at any time, no
\* send is accepted while isLoading is TRUE, and every settlement (success,
\* success = FALSE, failed call) leaves isLoading FALSE.
C21_OneQueryInFlight ==
    /\ [](/\ InFlight <= 1
          /\ chat.isLoading <=> InFlight > 0)
    /\ [][/\ SendStep => ~chat.isLoading /\ chat'.isLoading
          /\ SettleStep => chat.isLoading /\ ~chat'.isLoading]_vars
\* C21 witness: one exchange has completed and a second question is
\* awaiting its outcome with the controls disabled.
C21_Witness ==
    /\ Len(chat.replies) = 1 /\ InFlight = 1 /\ chat.isLoading
    /\ UserSends(chat) = 2

LastReply     == chat'.replies[Len(chat'.replies)]
ReplySucceeded(o) ==
    /\ o.kind = "resolve" /\ o.data.t = "object"
    /\ \E i \in DOMAIN o.data.e : o.data.e[i] = <<"success", Bool(TRUE)>>
IsPrefix(a, b) == Len(a) <= Len(b) /\ SubSeq(b, 1, Len(a)) = a
\* C22: the message list only grows at its end; a send appends exactly one
\* user message and clears errorText; a settlement either appends exactly one
\* bot message right after that user message and leaves errorText empty,
\* when the backend replied success = TRUE, or appends nothing and sets a
\* non-empty errorText, when it replied success = FALSE or the call failed.
C22_OneMessagePerOutcome ==
    [][/\ IsPrefix(chat.messages, chat'.messages)
       /\ SendStep =>
             /\ chat'.messages =
                   Append(chat.messages, [sender |-> "user", text |-> Str(Trim(chat.text))])
             /\ chat'.errorText = <<>>
       /\ SettleStep =>
             /\ chat.messages # <<>>
             /\ chat.messages[Len(chat.messages)].sender = "user"
             /\ chat.errorText = <<>>
             /\ IF ReplySucceeded(LastReply)
                THEN /\ Len(chat'.messages) = Len(chat.messages) + 1
                     /\ chat'.messages[Len(chat'.messages)].sender = "bot"
                     /\ chat'.errorText = <<>>
                ELSE /\ chat'.messages = chat.messages
                     /\ chat'.errorText # <<>>
       /\ (~SendStep /\ ~SettleStep) =>
             /\ chat'.messages = chat.messages
             /\ chat'.errorText = chat.errorText]_vars
\* C22 witness: a first exchange answered by the bot, a second one failed,
\* and a third question just sent, which cleared the error text.
C22_Witness ==
    /\ Len(chat.replies) = 2
    /\ ReplySucceeded(chat.replies[1]) /\ chat.replies[2].kind = "reject"
    /\ Len(chat.messages) = 4
    /\ chat.messages[2].sender = "bot" /\ chat.messages[4].sender = "user"
    /\ chat.errorText = <<>> /\ chat.isLoading
====
